---- MODULE Spec2Model ----
(***************************************************************************)
(* ChangeNotifier: a process-wide publish/subscribe state container.       *)
(*                                                                         *)
(* Two variants of the class exist in the repository:                      *)
(*   - the sliced registry  (src/src/state.ts):                            *)
(*       listeners[eventName][sliceName], notifierState[eventName][slice]  *)
(*   - the flat registry    (src/unnamed/part_000):                        *)
(*       listeners[eventName], notifierState[eventName]                    *)
(* A running program imports one of them; `variant` says which one.        *)
(*                                                                         *)
(* Event and slice names are ordinary strings (not names of members of     *)
(* Object.prototype).  Callbacks are passive observers: a callback records *)
(* the value it is handed and the stored state it can read at that moment. *)
(***************************************************************************)
EXTENDS Integers, Sequences, FiniteSets, TLC

(***************************************************************************)
(* Bounds of the model.                                                    *)
(***************************************************************************)
MaxVal == 2        \* the values of the field "count" are 1..MaxVal
NumCbs == 2        \* callback references cb 1 .. cb NumCbs

(***************************************************************************)
(* JavaScript values of type T.                                            *)
(*   kind    which sort of value it is                                     *)
(*   fields  the own enumerable properties (0 = the key is not there)      *)
(*   num     the number, for kind "number"                                 *)
(* The arrays of the model are empty (no index key) and the class         *)
(* instances have own properties like a record has.                       *)
(***************************************************************************)
Keys == {"count", "extra"}
FieldVals == 1..MaxVal
Numbers == {5, 7}

NoFields == [k \in Keys |-> 0]

Rec(f) == [kind |-> "record", fields |-> f, num |-> 0]
Arr(f) == [kind |-> "array", fields |-> f, num |-> 0]
Inst(f) == [kind |-> "instance", fields |-> f, num |-> 0]
Num(n) == [kind |-> "number", fields |-> NoFields, num |-> n]
Null == [kind |-> "null", fields |-> NoFields, num |-> 0]
Undefined == [kind |-> "undefined", fields |-> NoFields, num |-> 0]
EmptyRecord == Rec(NoFields)

Field(k, v) == [j \in Keys |-> IF j = k THEN v ELSE 0]
Fields2(k1, v1, k2, v2) == [j \in Keys |-> IF j = k1 THEN v1 ELSE IF j = k2 THEN v2 ELSE 0]

KeysOf(v) == {k \in Keys : v.fields[k] # 0}

\* typeof value
TypeOf(value) ==
    CASE value.kind \in {"record", "array", "instance", "null"} -> "object"
      [] value.kind = "number" -> "number"
      [] value.kind = "undefined" -> "undefined"

\* value.constructor
ConstructorOf(value) ==
    CASE value.kind = "record" -> "Object"
      [] value.kind = "array" -> "Array"
      [] value.kind = "instance" -> "Class"
      [] value.kind = "number" -> "Number"
      [] OTHER -> "none"

\* Array.isArray(value)
IsArray(value) == value.kind = "array"

\* Boolean(value)
Truthy(value) ==
    CASE value.kind \in {"null", "undefined"} -> FALSE
      [] value.kind = "number" -> value.num # 0
      [] OTHER -> TRUE

checkValidObjectNoArrayTest(value) ==
    /\ TypeOf(value) = "object"
    /\ value.kind # "null"

checkValidObject(value) ==
    /\ TypeOf(value) = "object"
    /\ value.kind # "null"
    /\ ~IsArray(value)
    /\ ConstructorOf(value) = "Object"

\* { ...a, ...b } : the own enumerable properties of a, then those of b
\* (spreading null, undefined or a number adds nothing)
SpreadOf(value) == IF TypeOf(value) = "object" THEN value.fields ELSE NoFields

ObjectSpreadFirstWins(a, b) ==
    Rec([k \in Keys |-> IF SpreadOf(a)[k] # 0 THEN SpreadOf(a)[k] ELSE SpreadOf(b)[k]])

ObjectSpread(a, b) ==
    Rec([k \in Keys |-> IF SpreadOf(b)[k] # 0 THEN SpreadOf(b)[k] ELSE SpreadOf(a)[k]])

\* x || {}
OrEmpty(value) == IF Truthy(value) THEN value ELSE EmptyRecord

\* const stateData = checkValidObject(data) ? { ...(state || {}), ...data } : data
StateData(state, data) ==
    IF checkValidObject(data) THEN ObjectSpread(OrEmpty(state), data) ELSE data

(***************************************************************************)
(* Arguments of the calls.                                                 *)
(***************************************************************************)
EventNames == {"evt", "other"}
SliceNames == {"sliceA", "sliceB"}
NoSlice == "-"                      \* the flat variant has no slice argument
Cbs == 1..NumCbs

Str(n) == [type |-> "string", name |-> n]
ValidEventArgs == {Str(n) : n \in EventNames}
InvalidEventArgs == {Str(""), [type |-> "number", name |-> "7"]}
Fn(i) == [type |-> "function", id |-> i]
NotCallable == [type |-> "object", id |-> 0]
CallbackFns == {Fn(i) : i \in Cbs}

PayloadRecords ==
    {EmptyRecord, Rec(Field("extra", 1))}
    \cup {Rec(Field("count", v)) : v \in FieldVals}
    \cup {Rec(Fields2("count", v, "extra", 1)) : v \in FieldVals}
NonRecords ==
    {Num(n) : n \in Numbers}
    \cup {Null, Undefined, Arr(NoFields), Inst(Field("count", 1))}
Payloads == PayloadRecords \cup NonRecords
InitialStates ==
    {EmptyRecord, Rec(Field("count", 1)), Rec(Field("extra", 1)), Num(5), Null, Undefined}
FewPayloads == {Rec(Field("extra", 1))}
FewInitialStates == {Rec(Field("count", 1))}
FewCallbackFns == {Fn(1)}

\* The keys the calls address.  The sliced registry is exercised on two slices
\* of one event, the flat registry on two events.  The first key of a variant
\* is driven with every payload and callback, the second one with a few.
MainKeys(v) == IF v = "sliced" THEN {<<Str("evt"), "sliceA">>} ELSE {<<Str("evt"), NoSlice>>}
SideKeys(v) == IF v = "sliced" THEN {<<Str("evt"), "sliceB">>} ELSE {<<Str("other"), NoSlice>>}
\* A call with an invalid event name, or a listen with a callback that is not
\* callable, is rejected before any other argument is read: such calls are made
\* with one fixed choice of the other arguments.
BadKeys(v) == {<<e, IF v = "sliced" THEN "sliceA" ELSE NoSlice>> : e \in InvalidEventArgs}

\* <<key, data>>
NotifyArgs(v) ==
    (MainKeys(v) \X Payloads)
    \cup (SideKeys(v) \X FewPayloads)
    \cup (BadKeys(v) \X {Num(5)})
\* <<key, callback, initialState>>
ListenArgs(v) ==
    (MainKeys(v) \X CallbackFns \X InitialStates)
    \cup (SideKeys(v) \X FewCallbackFns \X FewInitialStates)
    \cup (BadKeys(v) \X {Fn(1)} \X {EmptyRecord})
    \cup (MainKeys(v) \X {NotCallable} \X {EmptyRecord})
\* <<key, callback>>
UnsubscribeArgs(v) ==
    (MainKeys(v) \X CallbackFns)
    \cup (SideKeys(v) \X FewCallbackFns)
    \cup (BadKeys(v) \X {Fn(1)})
\* key
GetStateArgs(v) == MainKeys(v) \cup SideKeys(v) \cup BadKeys(v)

(***************************************************************************)
(* Helpers of both variants.                                               *)
(***************************************************************************)
\* private validateEvent(eventName): Boolean(eventName && typeof eventName === 'string')
validateEvent(eventName) ==
    /\ ~(eventName.type = "string" /\ eventName.name = "")
    /\ eventName.type = "string"

checkValidFunctionAny(value) == TRUE

\* checkValidFunction(value)
checkValidFunction(value) == value.type = "function"

DefaultInitialStateNone(initialState) == initialState

\* initialState: T = {} as T   (the default applies to an undefined argument)
DefaultInitialState(initialState) ==
    IF initialState.kind = "undefined" THEN EmptyRecord ELSE initialState

\* A Set<ListenerCallback> is kept as the sequence of its members in insertion
\* order, which is the order forEach visits them in.
InSet(set, cb) == \E i \in 1..Len(set) : set[i] = cb

SetAddAgain(set, cb) == Append(set, cb)

SetAdd(set, cb) == IF InSet(set, cb) THEN set ELSE Append(set, cb)

SetDeleteAll(set, cb) == <<>>

SetDelete(set, cb) == SelectSeq(set, LAMBDA x : x # cb)

\* callbacks.forEach((cb) => cb(stateData)): each call hands over stateData;
\* `stored` is what the registry holds for the key while the callback runs.
ForEach(set, stateData, stored) ==
    [i \in 1..Len(set) |-> [cb |-> set[i], value |-> stateData, seen |-> stored]]

Outcome(L, S, calls, result) ==
    [listeners |-> L, notifierState |-> S, calls |-> calls, result |-> result]

(***************************************************************************)
(* The sliced registry (src/src/state.ts).                                 *)
(***************************************************************************)
NoSliceListeners == [s \in SliceNames |-> [present |-> FALSE, cbs |-> <<>>]]
NoSliceStates == [s \in SliceNames |-> [present |-> FALSE, val |-> Undefined]]

\* private listeners = {}
EmptyListeners == [e \in EventNames |-> [present |-> FALSE, slices |-> NoSliceListeners]]
\* private notifierState = {}
EmptyNotifierState == [e \in EventNames |-> [present |-> FALSE, slices |-> NoSliceStates]]

\* this.notifierState[eventName][sliceName], read
StateAt(S, e, s) == IF S[e].slices[s].present THEN S[e].slices[s].val ELSE Undefined

StoreStateSkipped(S, e, s, stateData) == S

\* this.notifierState[eventName][sliceName] = stateData
StoreState(S, e, s, stateData) ==
    [S EXCEPT ![e].slices[s] = [present |-> TRUE, val |-> stateData]]

\* getState(eventName, sliceName): this.notifierState[eventName]?.[sliceName]
getState(S, eventName, sliceName) ==
    IF eventName.name \in EventNames /\ S[eventName.name].present
    THEN StateAt(S, eventName.name, sliceName)
    ELSE Undefined

sliceListenersMissingNever(L, e, s) == FALSE

\* notify, lines 87-88: const sliceListeners = ...; if (!sliceListeners)
sliceListenersMissing(L, e, s) == ~L[e].slices[s].present

\* notify(eventName, data, sliceName, caller)
notify(L, S, eventName, data, sliceName) ==
    LET e == eventName.name
        s == sliceName
    IN  IF ~validateEvent(eventName) THEN Outcome(L, S, <<>>, "throw")
        ELSE IF ~L[e].present THEN Outcome(L, S, <<>>, "warn")
        ELSE IF sliceListenersMissing(L, e, s) THEN Outcome(L, S, <<>>, "warn")
        ELSE IF ~S[e].present THEN Outcome(L, S, <<>>, "throw")
        ELSE LET sliceListeners == L[e].slices[s].cbs
                 stateData == StateData(StateAt(S, e, s), data)
                 S2 == StoreState(S, e, s, stateData)
             IN  Outcome(L, S2, ForEach(sliceListeners, stateData, StateAt(S2, e, s)), "ok")

listenEventAlways(L, S, e) ==
    [listeners |-> [L EXCEPT ![e] = [present |-> TRUE, slices |-> NoSliceListeners]],
     notifierState |-> [S EXCEPT ![e] = [present |-> TRUE, slices |-> NoSliceStates]]]

\* listen, lines 126-129: (re)create the per-event maps
listenEvent(L, S, e) ==
    IF ~L[e].present \/ ~S[e].present
    THEN [listeners |-> [L EXCEPT ![e] = [present |-> TRUE, slices |-> NoSliceListeners]],
          notifierState |-> [S EXCEPT ![e] = [present |-> TRUE, slices |-> NoSliceStates]]]
    ELSE [listeners |-> L, notifierState |-> S]

listenSliceReseedEmpty(L, S, e, s, initialState) ==
    IF ~L[e].slices[s].present \/ Len(L[e].slices[s].cbs) = 0
    THEN [listeners |-> [L EXCEPT ![e].slices[s] = [present |-> TRUE, cbs |-> <<>>]],
          notifierState |-> [S EXCEPT ![e].slices[s] = [present |-> TRUE, val |-> initialState]]]
    ELSE [listeners |-> L, notifierState |-> S]

listenSliceNoSeed(L, S, e, s, initialState) ==
    IF ~L[e].slices[s].present
    THEN [listeners |-> [L EXCEPT ![e].slices[s] = [present |-> TRUE, cbs |-> <<>>]],
          notifierState |-> S]
    ELSE [listeners |-> L, notifierState |-> S]

\* listen, lines 131-134: create the slice's callback set and seed its state
listenSlice(L, S, e, s, initialState) ==
    IF ~L[e].slices[s].present
    THEN [listeners |-> [L EXCEPT ![e].slices[s] = [present |-> TRUE, cbs |-> <<>>]],
          notifierState |-> StoreState(S, e, s, initialState)]
    ELSE [listeners |-> L, notifierState |-> S]

\* listen(eventName, callback, initialState, sliceName)
listen(L, S, eventName, callback, initialState, sliceName) ==
    LET e == eventName.name
        s == sliceName
    IN  IF ~validateEvent(eventName) \/ ~checkValidFunction(callback)
        THEN Outcome(L, S, <<>>, "throw")
        ELSE LET r1 == listenEvent(L, S, e)
                 r2 == listenSlice(r1.listeners, r1.notifierState, e, s,
                                   DefaultInitialState(initialState))
                 L3 == [r2.listeners EXCEPT ![e].slices[s].cbs = SetAdd(@, callback.id)]
             IN  Outcome(L3, r2.notifierState, <<>>, "ok")

unsubscribeLenient(L, S, eventName, callback, sliceName) ==
    LET e == eventName.name
        s == sliceName
    IN  IF ~validateEvent(eventName) THEN Outcome(L, S, <<>>, "throw")
        ELSE IF ~L[e].present THEN Outcome(L, S, <<>>, "warn")
        ELSE IF ~L[e].slices[s].present \/ ~InSet(L[e].slices[s].cbs, callback.id)
        THEN Outcome(L, S, <<>>, "warn")
        ELSE Outcome([L EXCEPT ![e].slices[s].cbs = SetDelete(@, callback.id)], S, <<>>, "ok")

unsubscribeStrict(L, S, eventName, callback, sliceName) ==
    LET e == eventName.name
        s == sliceName
    IN  IF ~validateEvent(eventName) \/ ~L[e].present
        THEN Outcome(L, S, <<>>, "throw")
        ELSE IF ~L[e].slices[s].present \/ ~InSet(L[e].slices[s].cbs, callback.id)
        THEN Outcome(L, S, <<>>, "throw")
        ELSE Outcome([L EXCEPT ![e].slices[s].cbs = SetDelete(@, callback.id)], S, <<>>, "ok")

\* unsubscribe(eventName, callback, sliceName)
unsubscribe(L, S, eventName, callback, sliceName) ==
    LET e == eventName.name
        s == sliceName
    IN  IF ~validateEvent(eventName) \/ ~L[e].present
        THEN Outcome(L, S, <<>>, "throw")
        ELSE IF ~L[e].slices[s].present \/ ~InSet(L[e].slices[s].cbs, callback.id)
        THEN Outcome(L, S, <<>>, "warn")
        ELSE Outcome([L EXCEPT ![e].slices[s].cbs = SetDelete(@, callback.id)], S, <<>>, "ok")

(***************************************************************************)
(* The flat registry (src/unnamed/part_000).                               *)
(***************************************************************************)
\* private listeners = {}
EmptyFlatListeners == [e \in EventNames |-> [present |-> FALSE, cbs |-> <<>>]]
\* private notifierState = {}
EmptyFlatNotifierState == [e \in EventNames |-> [present |-> FALSE, val |-> Undefined]]

\* this.notifierState[eventName], read
FlatStateAt(S, e) == IF S[e].present THEN S[e].val ELSE Undefined

\* this.notifierState[eventName] = stateData
FlatStoreState(S, e, stateData) == [S EXCEPT ![e] = [present |-> TRUE, val |-> stateData]]

\* notify(eventName, data, caller)
flatNotify(L, S, eventName, data) ==
    LET e == eventName.name
    IN  IF ~validateEvent(eventName) THEN Outcome(L, S, <<>>, "throw")
        ELSE IF ~L[e].present THEN Outcome(L, S, <<>>, "warn")
        ELSE LET callbacks == L[e].cbs
                 stateData == StateData(FlatStateAt(S, e), data)
                 S2 == FlatStoreState(S, e, stateData)
             IN  Outcome(L, S2, ForEach(callbacks, stateData, FlatStateAt(S2, e)), "ok")

\* listen, lines 114-117: create the callback set and seed the state
flatListenEvent(L, S, e, initialState) ==
    IF ~L[e].present
    THEN [listeners |-> [L EXCEPT ![e] = [present |-> TRUE, cbs |-> <<>>]],
          notifierState |-> FlatStoreState(S, e, initialState)]
    ELSE [listeners |-> L, notifierState |-> S]

\* listen, lines 124-128: the test that guards the immediate notify
\* (Object.keys(...) is an array, which is truthy)
flatReplayTest(state) ==
    \/ state.kind # "null"
    \/ (checkValidObject(state) /\ TRUE)

\* listen(eventName, callback, initialState)
flatListen(L, S, eventName, callback, initialState) ==
    LET e == eventName.name
    IN  IF ~validateEvent(eventName) \/ ~checkValidFunction(callback)
        THEN Outcome(L, S, <<>>, "throw")
        ELSE LET r1 == flatListenEvent(L, S, e, DefaultInitialState(initialState))
                 L2 == [r1.listeners EXCEPT ![e].cbs = SetAdd(@, callback.id)]
                 S2 == r1.notifierState
             IN  IF flatReplayTest(FlatStateAt(S2, e))
                 THEN flatNotify(L2, S2, eventName, FlatStateAt(S2, e))
                 ELSE Outcome(L2, S2, <<>>, "ok")

\* unsubscribe(eventName, callback)
flatUnsubscribe(L, S, eventName, callback) ==
    LET e == eventName.name
    IN  IF ~validateEvent(eventName) \/ ~L[e].present
        THEN Outcome(L, S, <<>>, "throw")
        ELSE IF ~InSet(L[e].cbs, callback.id)
        THEN Outcome(L, S, <<>>, "warn")
        ELSE Outcome([L EXCEPT ![e].cbs = SetDelete(@, callback.id)], S, <<>>, "ok")

(***************************************************************************)
(* The state machine: one action per call of a registry method.            *)
(***************************************************************************)
VARIABLES
    variant,            \* "sliced" (state.ts) or "flat" (part_000)
    listeners,          \* state.ts: private listeners
    notifierState,      \* state.ts: private notifierState
    flatListeners,      \* part_000: private listeners
    flatNotifierState,  \* part_000: private notifierState
    last,               \* the last call: its arguments, what its key held before, its outcome
    listened,           \* the keys <<event, slice>> for which a listen call has completed
    phase,              \* useNotifier.ts: where each component that uses the hook is
    hookState           \* useNotifier.ts: const [state, setState] of each component

vars ==
    <<variant, listeners, notifierState, flatListeners, flatNotifierState, last, listened,
      phase, hookState>>

\* the components that use the hook; component c has the callback cb c
Components == Cbs
hookVars == <<phase, hookState>>

NoKey == [present |-> FALSE, hasSet |-> FALSE, val |-> Undefined, cbs |-> <<>>]

\* what the sliced registry holds for (e, s)
KeyAt(L, S, e, s) ==
    [present |-> S[e].present /\ S[e].slices[s].present,
     hasSet |-> L[e].present /\ L[e].slices[s].present,
     val |-> IF S[e].present THEN StateAt(S, e, s) ELSE Undefined,
     cbs |-> IF L[e].present /\ L[e].slices[s].present THEN L[e].slices[s].cbs ELSE <<>>]

\* what the flat registry holds for e
FlatKeyAt(L, S, e) ==
    [present |-> S[e].present,
     hasSet |-> L[e].present,
     val |-> FlatStateAt(S, e),
     cbs |-> IF L[e].present THEN L[e].cbs ELSE <<>>]

\* what the registry in use holds for the key (e, s)
Key(e, s) ==
    IF e \notin EventNames THEN NoKey
    ELSE IF variant = "sliced" THEN KeyAt(listeners, notifierState, e, s)
    ELSE FlatKeyAt(flatListeners, flatNotifierState, e)

\* What a callback does when the registry invokes it, besides taking the value:
\* nothing ("observe"), throw, or call unsubscribe(cb), listen(cb) or
\* notify(data) on the key it is registered for.  `actor` is the callback that
\* does it (0: none), the other callbacks only take the value.
NoAct == [actor |-> 0, kind |-> "observe", cb |-> 0, data |-> Undefined]

Call(op, eventName, sliceName, callback, data, r) ==
    [op |-> op, eventName |-> eventName, sliceName |-> sliceName, callback |-> callback,
     data |-> data, pre |-> Key(eventName.name, sliceName),
     result |-> r.result, calls |-> r.calls, act |-> NoAct]

NoCall ==
    [op |-> "none", eventName |-> Str(""), sliceName |-> NoSlice, callback |-> NotCallable,
     data |-> Undefined, pre |-> NoKey, result |-> "ok", calls |-> <<>>, act |-> NoAct]

Init ==
    /\ variant \in {"sliced", "flat"}
    /\ listeners = EmptyListeners
    /\ notifierState = EmptyNotifierState
    /\ flatListeners = EmptyFlatListeners
    /\ flatNotifierState = EmptyFlatNotifierState
    /\ last = NoCall
    /\ listened = {}
    /\ phase = [c \in Components |-> "off"]
    /\ hookState = [c \in Components |-> Undefined]

Notify ==
    /\ variant = "sliced"
    /\ \E a \in NotifyArgs("sliced") :
         LET eventName == a[1][1]
             sliceName == a[1][2]
             data == a[2]
             r == notify(listeners, notifierState, eventName, data, sliceName)
         IN  /\ listeners' = r.listeners
             /\ notifierState' = r.notifierState
             /\ last' = Call("notify", eventName, sliceName, NotCallable, data, r)
    /\ UNCHANGED <<variant, flatListeners, flatNotifierState, listened>>
    /\ UNCHANGED hookVars

Listen ==
    /\ variant = "sliced"
    /\ \E a \in ListenArgs("sliced") :
         LET eventName == a[1][1]
             sliceName == a[1][2]
             callback == a[2]
             initialState == a[3]
             r == listen(listeners, notifierState, eventName, callback, initialState, sliceName)
         IN  /\ listeners' = r.listeners
             /\ notifierState' = r.notifierState
             /\ last' = Call("listen", eventName, sliceName, callback, initialState, r)
             /\ listened' = IF r.result = "throw" THEN listened
                            ELSE listened \cup {<<eventName.name, sliceName>>}
    /\ UNCHANGED <<variant, flatListeners, flatNotifierState>>
    /\ UNCHANGED hookVars

Unsubscribe ==
    /\ variant = "sliced"
    /\ \E a \in UnsubscribeArgs("sliced") :
         LET eventName == a[1][1]
             sliceName == a[1][2]
             callback == a[2]
             r == unsubscribe(listeners, notifierState, eventName, callback, sliceName)
         IN  /\ listeners' = r.listeners
             /\ notifierState' = r.notifierState
             /\ last' = Call("unsubscribe", eventName, sliceName, callback, Undefined, r)
    /\ UNCHANGED <<variant, flatListeners, flatNotifierState, listened>>
    /\ UNCHANGED hookVars

\* getState returns its result in last.data
GetState ==
    /\ variant = "sliced"
    /\ \E a \in GetStateArgs("sliced") :
         LET eventName == a[1]
             sliceName == a[2]
         IN  last' = Call("getState", eventName, sliceName, NotCallable,
                          getState(notifierState, eventName, sliceName),
                          Outcome(listeners, notifierState, <<>>, "ok"))
    /\ UNCHANGED <<variant, listeners, notifierState, flatListeners, flatNotifierState, listened>>
    /\ UNCHANGED hookVars

FlatNotify ==
    /\ variant = "flat"
    /\ \E a \in NotifyArgs("flat") :
         LET eventName == a[1][1]
             data == a[2]
             r == flatNotify(flatListeners, flatNotifierState, eventName, data)
         IN  /\ flatListeners' = r.listeners
             /\ flatNotifierState' = r.notifierState
             /\ last' = Call("notify", eventName, NoSlice, NotCallable, data, r)
    /\ UNCHANGED <<variant, listeners, notifierState, listened>>
    /\ UNCHANGED hookVars

FlatListen ==
    /\ variant = "flat"
    /\ \E a \in ListenArgs("flat") :
         LET eventName == a[1][1]
             callback == a[2]
             initialState == a[3]
             r == flatListen(flatListeners, flatNotifierState, eventName, callback, initialState)
         IN  /\ flatListeners' = r.listeners
             /\ flatNotifierState' = r.notifierState
             /\ last' = Call("listen", eventName, NoSlice, callback, initialState, r)
             /\ listened' = IF r.result = "throw" THEN listened
                            ELSE listened \cup {<<eventName.name, NoSlice>>}
    /\ UNCHANGED <<variant, listeners, notifierState>>
    /\ UNCHANGED hookVars

FlatUnsubscribe ==
    /\ variant = "flat"
    /\ \E a \in UnsubscribeArgs("flat") :
         LET eventName == a[1][1]
             callback == a[2]
             r == flatUnsubscribe(flatListeners, flatNotifierState, eventName, callback)
         IN  /\ flatListeners' = r.listeners
             /\ flatNotifierState' = r.notifierState
             /\ last' = Call("unsubscribe", eventName, NoSlice, callback, Undefined, r)
    /\ UNCHANGED <<variant, listeners, notifierState, listened>>
    /\ UNCHANGED hookVars

Next ==
    \/ Notify
    \/ Listen
    \/ Unsubscribe
    \/ GetState
    \/ FlatNotify
    \/ FlatListen
    \/ FlatUnsubscribe

Spec == Init /\ [][Next]_vars

(***************************************************************************)
(* Callbacks that act.  The registry invokes its callbacks synchronously,  *)
(* inside notify, and a callback is free to throw or to call the registry  *)
(* again.  Below, the callback cb 1 does so, at most once in each call the *)
(* program makes from outside a callback; every other callback takes the   *)
(* value it is handed and returns.                                         *)
(***************************************************************************)
ActingCallback == Fn(1)

NestedPayloads == {Rec(Field("extra", 1)), Rec(Field("count", MaxVal))}

Acts ==
    {NoAct}
    \cup {[actor |-> ActingCallback.id, kind |-> "throw", cb |-> 0, data |-> Undefined]}
    \cup {[actor |-> ActingCallback.id, kind |-> k, cb |-> c, data |-> Undefined] :
            k \in {"listen", "unsubscribe"}, c \in Cbs}
    \cup {[actor |-> ActingCallback.id, kind |-> "notify", cb |-> 0, data |-> d] :
            d \in NestedPayloads}

\* A Set that is being iterated.  forEach walks the entries in insertion order
\* and reads the Set at each step: delete empties the entry of a member (the
\* walk passes over empty entries), add puts a new entry at the end (the walk
\* reaches it).
Removed == 0

LiveDelete(set, cb) == [i \in 1..Len(set) |-> IF set[i] = cb THEN Removed ELSE set[i]]

\* the members of the Set, in insertion order
Members(set) == SelectSeq(set, LAMBDA x : x # Removed)

\* What a running call works on: the callback Set and the stored state of the
\* key, the invocations made so far, whether the acting callback has acted,
\* and whether an exception is on its way out of the call.
Running(cbs, val) ==
    [cbs |-> cbs, val |-> val, calls |-> <<>>, acted |-> FALSE, thrown |-> FALSE]

RECURSIVE LiveForEach(_, _, _, _)

\* notify from inside a callback: the key has a callback Set, so the guards
\* pass; merge, store, fan out
LiveNotify(env, act, data) ==
    LET stateData == StateData(env.val, data)
    IN  LiveForEach([env EXCEPT !.val = stateData], act, stateData, 1)

\* listen from inside a callback: the key exists, so nothing is created or
\* seeded; the callback is added, and the flat registry replays the state
LiveListen(env, act, cb) ==
    LET added == [env EXCEPT !.cbs = SetAdd(@, cb)]
    IN  IF variant = "flat" /\ flatReplayTest(added.val)
        THEN LiveNotify(added, act, added.val)
        ELSE added

\* unsubscribe from inside a callback
LiveUnsubscribe(env, cb) == [env EXCEPT !.cbs = LiveDelete(@, cb)]

\* cb(stateData)
Invoke(env, act, cb, stateData) ==
    LET called == [env EXCEPT !.calls = Append(@, [cb |-> cb, value |-> stateData, seen |-> env.val])]
        acting == [called EXCEPT !.acted = TRUE]
    IN  IF cb # act.actor \/ env.acted THEN called
        ELSE IF act.kind = "throw" THEN [acting EXCEPT !.thrown = TRUE]
        ELSE IF act.kind = "unsubscribe" THEN LiveUnsubscribe(acting, act.cb)
        ELSE IF act.kind = "listen" THEN LiveListen(acting, act, act.cb)
        ELSE IF act.kind = "notify" THEN LiveNotify(acting, act, act.data)
        ELSE acting

\* callbacks.forEach((cb) => cb(stateData)), from entry i on; an exception a
\* callback throws ends every fan-out it is nested in
LiveForEach(env, act, stateData, i) ==
    IF env.thrown \/ i > Len(env.cbs) THEN env
    ELSE IF env.cbs[i] = Removed THEN LiveForEach(env, act, stateData, i + 1)
    ELSE LiveForEach(Invoke(env, act, env.cbs[i], stateData), act, stateData, i + 1)

\* The outcome of a call when the callbacks act: r is the outcome with
\* callbacks that only observe, which is the registry as the fan-out finds it
\* (state stored, callback added) and the value it hands over.
Reentrant(r, e, s, act) ==
    IF Len(r.calls) = 0
    THEN [listeners |-> r.listeners, notifierState |-> r.notifierState,
          calls |-> r.calls, result |-> r.result, act |-> NoAct]
    ELSE LET k == IF variant = "sliced" THEN KeyAt(r.listeners, r.notifierState, e, s)
                  ELSE FlatKeyAt(r.listeners, r.notifierState, e)
             env == LiveForEach(Running(k.cbs, k.val), act, r.calls[1].value, 1)
         IN  [listeners |-> IF variant = "sliced"
                            THEN [r.listeners EXCEPT ![e].slices[s].cbs = Members(env.cbs)]
                            ELSE [r.listeners EXCEPT ![e].cbs = Members(env.cbs)],
              notifierState |-> IF variant = "sliced"
                                THEN StoreState(r.notifierState, e, s, env.val)
                                ELSE FlatStoreState(r.notifierState, e, env.val),
              calls |-> env.calls,
              result |-> IF env.thrown THEN "throw" ELSE "ok",
              act |-> IF env.acted THEN act ELSE NoAct]

\* the calls are made on one key, with a few payloads
ReentrantSlice == IF variant = "sliced" THEN "sliceA" ELSE NoSlice
ReentrantPayloads == {Rec(Field("count", v)) : v \in FieldVals}
ReentrantInitialStates == {Rec(Field("count", 1)), Null}

Becomes(r) ==
    IF variant = "sliced"
    THEN /\ listeners' = r.listeners
         /\ notifierState' = r.notifierState
         /\ UNCHANGED <<flatListeners, flatNotifierState>>
    ELSE /\ flatListeners' = r.listeners
         /\ flatNotifierState' = r.notifierState
         /\ UNCHANGED <<listeners, notifierState>>

ReentrantNotify ==
    /\ \E data \in ReentrantPayloads, act \in Acts :
         LET eventName == Str("evt")
             sliceName == ReentrantSlice
             r == Reentrant(IF variant = "sliced"
                            THEN notify(listeners, notifierState, eventName, data, sliceName)
                            ELSE flatNotify(flatListeners, flatNotifierState, eventName, data),
                            eventName.name, sliceName, act)
         IN  /\ Becomes(r)
             /\ last' = [Call("notify", eventName, sliceName, NotCallable, data, r)
                           EXCEPT !.act = r.act]
    /\ UNCHANGED <<variant, listened>>
    /\ UNCHANGED hookVars

ReentrantListen ==
    /\ \E callback \in CallbackFns, initialState \in ReentrantInitialStates, act \in Acts :
         LET eventName == Str("evt")
             sliceName == ReentrantSlice
             r == Reentrant(IF variant = "sliced"
                            THEN listen(listeners, notifierState, eventName, callback,
                                        initialState, sliceName)
                            ELSE flatListen(flatListeners, flatNotifierState, eventName,
                                            callback, initialState),
                            eventName.name, sliceName, act)
         IN  /\ Becomes(r)
             /\ last' = [Call("listen", eventName, sliceName, callback, initialState, r)
                           EXCEPT !.act = r.act]
             /\ listened' = listened \cup {<<eventName.name, sliceName>>}
    /\ UNCHANGED variant
    /\ UNCHANGED hookVars

ReentrantUnsubscribe ==
    /\ \E callback \in CallbackFns :
         LET eventName == Str("evt")
             sliceName == ReentrantSlice
             r == IF variant = "sliced"
                  THEN unsubscribe(listeners, notifierState, eventName, callback, sliceName)
                  ELSE flatUnsubscribe(flatListeners, flatNotifierState, eventName, callback)
         IN  /\ Becomes(r)
             /\ last' = Call("unsubscribe", eventName, sliceName, callback, Undefined, r)
    /\ UNCHANGED <<variant, listened>>
    /\ UNCHANGED hookVars

NextReentrant ==
    \/ ReentrantNotify
    \/ ReentrantListen
    \/ ReentrantUnsubscribe

SpecReentrant == Init /\ [][NextReentrant]_vars

(***************************************************************************)
(* The hook (src/src/useNotifier.ts).  Each component binds to the key     *)
(* ("evt", "sliceA") of the sliced registry with one initialState.  A      *)
(* component renders (getState, useState), then its effect runs (listen),  *)
(* and its cleanup runs when it goes away (unsubscribe); any caller may    *)
(* notify in between.                                                      *)
(***************************************************************************)
HookEvent == Str("evt")
HookSlice == "sliceA"
HookInitialState == Rec(Field("count", 1))
HookPayloads == {Rec(Field("count", v)) : v \in FieldVals}

\* a ?? b
NullishOr(a, b) == IF a.kind \in {"null", "undefined"} THEN b ELSE a

\* handleUpdate = (data) => setState(data), for each invocation of the call
SetStates(states, calls) ==
    [c \in Components |->
        LET at == {i \in 1..Len(calls) : calls[i].cb = c}
        IN  IF at = {} THEN states[c]
            ELSE calls[CHOOSE i \in at : \A j \in at : j <= i].value]

InitHook == Init /\ variant = "sliced"

\* lines 26-33: the first render of a component
Render ==
    /\ \E c \in Components :
         LET prevNotifierState == getState(notifierState, HookEvent, HookSlice)
         IN  /\ phase[c] = "off"
             /\ phase' = [phase EXCEPT ![c] = "rendered"]
             /\ hookState' = [hookState EXCEPT ![c] = NullishOr(prevNotifierState, HookInitialState)]
             /\ last' = Call("getState", HookEvent, HookSlice, NotCallable, prevNotifierState,
                             Outcome(listeners, notifierState, <<>>, "ok"))
    /\ UNCHANGED <<variant, listeners, notifierState, flatListeners, flatNotifierState, listened>>

\* lines 35-36: the effect of a rendered component
Effect ==
    /\ \E c \in Components :
         LET r == listen(listeners, notifierState, HookEvent, Fn(c), HookInitialState, HookSlice)
         IN  /\ phase[c] = "rendered"
             /\ phase' = [phase EXCEPT ![c] = "active"]
             /\ listeners' = r.listeners
             /\ notifierState' = r.notifierState
             /\ last' = Call("listen", HookEvent, HookSlice, Fn(c), HookInitialState, r)
             /\ listened' = listened \cup {<<HookEvent.name, HookSlice>>}
    /\ UNCHANGED <<variant, flatListeners, flatNotifierState, hookState>>

\* lines 37-39: the cleanup of an active component
Cleanup ==
    /\ \E c \in Components :
         LET r == unsubscribe(listeners, notifierState, HookEvent, Fn(c), HookSlice)
         IN  /\ phase[c] = "active"
             /\ phase' = [phase EXCEPT ![c] = "off"]
             /\ hookState' = [hookState EXCEPT ![c] = Undefined]
             /\ listeners' = r.listeners
             /\ notifierState' = r.notifierState
             /\ last' = Call("unsubscribe", HookEvent, HookSlice, Fn(c), Undefined, r)
    /\ UNCHANGED <<variant, flatListeners, flatNotifierState, listened>>

\* notifier.notify(eventName, data, sliceName, caller), by any caller
HookNotify ==
    /\ \E data \in HookPayloads :
         LET r == notify(listeners, notifierState, HookEvent, data, HookSlice)
         IN  /\ listeners' = r.listeners
             /\ notifierState' = r.notifierState
             /\ hookState' = SetStates(hookState, r.calls)
             /\ last' = Call("notify", HookEvent, HookSlice, NotCallable, data, r)
    /\ UNCHANGED <<variant, flatListeners, flatNotifierState, listened, phase>>

NextHook ==
    \/ Render
    \/ Effect
    \/ Cleanup
    \/ HookNotify

SpecHook == InitHook /\ [][NextHook]_vars

(***************************************************************************)
(* Vocabulary of the properties.                                           *)
(***************************************************************************)
\* the keys of the registry in use
RegistryKeys ==
    IF variant = "sliced" THEN EventNames \X SliceNames ELSE EventNames \X {NoSlice}

\* the key the last call addressed, as it is now
LastKey == Key(last.eventName.name, last.sliceName)

ValidName(eventName) == eventName.type = "string" /\ eventName.name # ""

\* the callbacks the last call invoked, in order
Invoked == [i \in 1..Len(last.calls) |-> last.calls[i].cb]

TimesInvoked(c) == Cardinality({i \in 1..Len(last.calls) : last.calls[i].cb = c})

\* the last call ran a fan-out (a notify that passed its guards, or the
\* notify a flat listen makes)
FannedOut ==
    \/ last.op = "notify" /\ last.result = "ok"
    \/ last.op = "listen" /\ last.result = "ok" /\ variant = "flat" /\ Len(last.calls) > 0

NoDuplicates(seq) == \A i, j \in 1..Len(seq) : i # j => seq[i] # seq[j]

Registry == <<listeners, notifierState, flatListeners, flatNotifierState>>

(***************************************************************************)
(* C1: on a key with at least one callback whose state is a plain record   *)
(* s, notify with a plain record d stores the shallow merge of s and d:    *)
(* the keys of d carry d's values, the keys of s that are not in d keep    *)
(* s's values, and there are no other keys.                                *)
(***************************************************************************)
C1_RecordNotifyIsShallowMerge ==
    (/\ last.op = "notify"
     /\ Len(last.pre.cbs) >= 1
     /\ last.pre.val.kind = "record"
     /\ last.data.kind = "record")
    => /\ LastKey.val.kind = "record"
       /\ \A k \in KeysOf(last.data) : LastKey.val.fields[k] = last.data.fields[k]
       /\ \A k \in KeysOf(last.pre.val) \ KeysOf(last.data) :
             LastKey.val.fields[k] = last.pre.val.fields[k]
       /\ KeysOf(LastKey.val) = KeysOf(last.pre.val) \cup KeysOf(last.data)

\* a record notify that overrides one field of the state and keeps another
C1_Witness ==
    /\ last.op = "notify"
    /\ Len(last.pre.cbs) >= 1
    /\ last.pre.val.kind = "record"
    /\ last.data.kind = "record"
    /\ \E k \in KeysOf(last.data) \cap KeysOf(last.pre.val) :
          last.data.fields[k] # last.pre.val.fields[k]
    /\ KeysOf(last.pre.val) \ KeysOf(last.data) # {}

(***************************************************************************)
(* C2: on a key with at least one callback, notify with a payload that is  *)
(* not a plain record (number, array, null, class instance, undefined)     *)
(* replaces the stored state by the payload, whatever the state was; a     *)
(* plain-record payload always gives a record carrying the payload's       *)
(* fields, whatever the state was.                                         *)
(***************************************************************************)
C2_NonRecordNotifyReplaces ==
    (last.op = "notify" /\ Len(last.pre.cbs) >= 1)
    => /\ last.data.kind # "record" => LastKey.val = last.data
       /\ last.data.kind = "record" =>
             /\ LastKey.val.kind = "record"
             /\ \A k \in KeysOf(last.data) : LastKey.val.fields[k] = last.data.fields[k]

\* a non-record payload replaced a non-empty record
C2_Witness ==
    /\ last.op = "notify"
    /\ Len(last.pre.cbs) >= 1
    /\ last.pre.val.kind = "record"
    /\ KeysOf(last.pre.val) # {}
    /\ last.data.kind \in {"number", "array", "null", "instance"}
    /\ LastKey.val = last.data

(***************************************************************************)
(* C3: every callback one notify call invokes is handed the same value,    *)
(* the post-merge state the call stored for the key, and that state is     *)
(* already stored when the callback runs.                                  *)
(***************************************************************************)
C3_CallbacksGetStoredState ==
    FannedOut =>
        \A i \in 1..Len(last.calls) :
            /\ last.calls[i].value = LastKey.val
            /\ last.calls[i].seen = last.calls[i].value

\* two callbacks were handed a merged state that differs from the raw payload
C3_Witness ==
    /\ last.op = "notify"
    /\ Len(last.calls) >= 2
    /\ last.calls[1].value # last.data
    /\ last.calls[1].value = LastKey.val

(***************************************************************************)
(* C4: in the sliced registry, after listen(event, cb, init, slice) on a   *)
(* key that was never listened to, getState(event, slice) is init, where   *)
(* an undefined init stands for the default, the empty record; getState on *)
(* a key that was never listened to returns undefined; getState changes    *)
(* nothing in the registry.                                                *)
(***************************************************************************)
C4_ListenSeedsState ==
    /\ [](variant = "sliced" =>
            /\ (/\ last.op = "listen"
                /\ last.result = "ok"
                /\ ~last.pre.present
                /\ ~last.pre.hasSet)
               => getState(notifierState, last.eventName, last.sliceName)
                    = (IF last.data.kind = "undefined" THEN EmptyRecord ELSE last.data)
            /\ (last.op = "getState" /\ ~last.pre.present) => last.data = Undefined)
    /\ [][last'.op = "getState" => UNCHANGED Registry]_vars

\* a first listen with an init that is not undefined seeded the state
C4_Witness ==
    /\ variant = "sliced"
    /\ last.op = "listen"
    /\ last.result = "ok"
    /\ ~last.pre.present
    /\ last.data.kind = "record"
    /\ KeysOf(last.data) # {}
    /\ LastKey.val = last.data

\* C4 as the claim states it: after the first listen of a key, getState is init
C4_AsClaimed ==
    (/\ variant = "sliced"
     /\ last.op = "listen"
     /\ last.result = "ok"
     /\ ~last.pre.present
     /\ ~last.pre.hasSet)
    => getState(notifierState, last.eventName, last.sliceName) = last.data

(***************************************************************************)
(* C5: unsubscribe(event, cb1, slice) removes exactly cb1 from the         *)
(* callback set of the key and leaves the key's state and its other        *)
(* callbacks as they were; a fan-out invokes exactly the callbacks that    *)
(* are registered on the key, so never a callback that was removed.        *)
(***************************************************************************)
C5_UnsubscribeRemovesExactlyOne ==
    /\ (last.op = "unsubscribe" /\ last.result # "throw") =>
          /\ LastKey.cbs = SelectSeq(last.pre.cbs, LAMBDA c : c # last.callback.id)
          /\ LastKey.val = last.pre.val
          /\ LastKey.present = last.pre.present
          /\ LastKey.hasSet = last.pre.hasSet
    /\ FannedOut => Invoked = LastKey.cbs

\* cb1 was removed from a key that keeps another callback
C5_Witness ==
    /\ last.op = "unsubscribe"
    /\ last.result = "ok"
    /\ InSet(last.pre.cbs, last.callback.id)
    /\ Len(last.pre.cbs) >= 2
    /\ Len(LastKey.cbs) = Len(last.pre.cbs) - 1

(***************************************************************************)
(* C6: subscription is idempotent: a listen with a callback that is        *)
(* already registered on the key leaves the callback set as it is, no      *)
(* callback set holds a callback twice, a fan-out invokes each registered  *)
(* callback exactly once, and after one unsubscribe of a callback it is    *)
(* no longer in the set.                                                   *)
(***************************************************************************)
C6_SubscriptionIdempotent ==
    /\ (/\ last.op = "listen"
        /\ last.result = "ok"
        /\ InSet(last.pre.cbs, last.callback.id)) => LastKey.cbs = last.pre.cbs
    /\ \A k \in RegistryKeys : NoDuplicates(Key(k[1], k[2]).cbs)
    /\ FannedOut =>
          \A c \in Cbs : TimesInvoked(c) = (IF InSet(LastKey.cbs, c) THEN 1 ELSE 0)
    /\ (last.op = "unsubscribe" /\ last.result # "throw") =>
          ~InSet(LastKey.cbs, last.callback.id)

\* a second listen with a callback that was already registered
C6_Witness ==
    /\ last.op = "listen"
    /\ last.result = "ok"
    /\ InSet(last.pre.cbs, last.callback.id)
    /\ LastKey.cbs = last.pre.cbs

(***************************************************************************)
(* C7: in the sliced registry a listen, notify or unsubscribe addressed to *)
(* one slice leaves the state and the callback set of every other key as   *)
(* they were, and invokes only callbacks registered on the addressed       *)
(* slice.                                                                  *)
(***************************************************************************)
C7_SlicesIndependent ==
    /\ [][(variant = "sliced" /\ last'.op \in {"listen", "notify", "unsubscribe"}) =>
            \A e \in EventNames, s \in SliceNames :
                <<e, s>> # <<last'.eventName.name, last'.sliceName>> =>
                    KeyAt(listeners', notifierState', e, s) = KeyAt(listeners, notifierState, e, s)]_vars
    /\ [](variant = "sliced" =>
            \A i \in 1..Len(last.calls) : InSet(LastKey.cbs, last.calls[i].cb))

\* a listen created a new slice of an event whose other slice has a state
\* and a callback
C7_Witness ==
    /\ variant = "sliced"
    /\ last.op = "listen"
    /\ last.result = "ok"
    /\ ~last.pre.hasSet
    /\ \E s \in SliceNames \ {last.sliceName} :
          /\ KeyAt(listeners, notifierState, last.eventName.name, s).present
          /\ Len(KeyAt(listeners, notifierState, last.eventName.name, s).cbs) >= 1

(***************************************************************************)
(* C8: when no callback is registered for the key, notify with a valid     *)
(* event name returns without raising, invokes no callback and leaves the  *)
(* stored state of the key as it was.                                      *)
(***************************************************************************)
C8_NotifyWithoutCallbacksKeepsState ==
    (/\ last.op = "notify"
     /\ ValidName(last.eventName)
     /\ Len(last.pre.cbs) = 0)
    => /\ last.result # "throw"
       /\ Len(last.calls) = 0
       /\ LastKey.val = last.pre.val
       /\ LastKey.present = last.pre.present

(***************************************************************************)
(* C9: notify with a valid event name on a key that was never listened to  *)
(* does not raise, invokes no callback, creates no state entry and no      *)
(* callback set, and leaves the whole registry unchanged.                  *)
(***************************************************************************)
C9_NotifyUnknownKeyIsNoOp ==
    /\ []((/\ last.op = "notify"
           /\ ValidName(last.eventName)
           /\ ~last.pre.hasSet)
          => /\ last.result = "warn"
             /\ Len(last.calls) = 0
             /\ ~LastKey.present
             /\ ~LastKey.hasSet)
    /\ [][(/\ last'.op = "notify"
           /\ ValidName(last'.eventName)
           /\ ~last'.pre.hasSet) => UNCHANGED Registry]_vars

\* sliced: the event is registered, the addressed slice never was
C9_Witness ==
    /\ variant = "sliced"
    /\ last.op = "notify"
    /\ ValidName(last.eventName)
    /\ ~last.pre.hasSet
    /\ listeners[last.eventName.name].present
    /\ last.result = "warn"

(***************************************************************************)
(* C10: a key has a state entry exactly if it has a callback set, and both *)
(* exist exactly if a listen call has completed for the key; a key that    *)
(* has them keeps them for ever (its callback set may become empty).       *)
(***************************************************************************)
C10_EntryAndSetTogether ==
    /\ [](\A k \in RegistryKeys :
            /\ Key(k[1], k[2]).present <=> Key(k[1], k[2]).hasSet
            /\ Key(k[1], k[2]).present <=> (k \in listened))
    /\ [](\A e \in EventNames : listeners[e].present <=> notifierState[e].present)
    /\ [][\A k \in RegistryKeys :
            Key(k[1], k[2]).present => (Key(k[1], k[2]).present /\ Key(k[1], k[2]).hasSet)']_vars

\* an Active key whose callbacks have all been removed
C10_Witness ==
    /\ last.op = "unsubscribe"
    /\ last.result = "ok"
    /\ LastKey.present
    /\ LastKey.hasSet
    /\ Len(LastKey.cbs) = 0
    /\ <<last.eventName.name, last.sliceName>> \in listened

\* a listen call has completed for some key of the event
EventListened(e) == \E k \in listened : k[1] = e

(***************************************************************************)
(* C11: unsubscribe with a valid event name for which listen was never     *)
(* called raises an error, and an unsubscribe that raises leaves the       *)
(* registry unchanged.                                                     *)
(***************************************************************************)
C11_UnsubscribeUnknownEventRaises ==
    /\ []((/\ last.op = "unsubscribe"
           /\ ValidName(last.eventName)
           /\ ~EventListened(last.eventName.name)) => last.result = "throw")
    /\ [][(last'.op = "unsubscribe" /\ last'.result = "throw") => UNCHANGED Registry]_vars

\* unsubscribe of a well-named event nobody listened to raised
C11_Witness ==
    /\ last.op = "unsubscribe"
    /\ ValidName(last.eventName)
    /\ ~EventListened(last.eventName.name)
    /\ last.result = "throw"

(***************************************************************************)
(* C12: unsubscribe on a registered event with a callback that is not in   *)
(* the callback set of the addressed key (or, sliced, on a slice that was  *)
(* never subscribed) does not raise (it warns), and such a call creates,   *)
(* removes and modifies nothing in the registry.                           *)
(***************************************************************************)
C12_UnsubscribeAbsentCallbackIsNoOp ==
    /\ []((/\ last.op = "unsubscribe"
           /\ ValidName(last.eventName)
           /\ EventListened(last.eventName.name)
           /\ ~InSet(last.pre.cbs, last.callback.id)) => last.result = "warn")
    /\ [][(last'.op = "unsubscribe" /\ last'.result = "warn") => UNCHANGED Registry]_vars

\* sliced: the event is registered, the addressed slice never was
C12_Witness ==
    /\ variant = "sliced"
    /\ last.op = "unsubscribe"
    /\ EventListened(last.eventName.name)
    /\ ~last.pre.hasSet
    /\ last.result = "warn"

(***************************************************************************)
(* C13: in both variants notify or listen with an empty or non-string      *)
(* event name, and listen with a callback that is not callable, raise,     *)
(* invoke no callback and leave both registry maps as they were.           *)
(***************************************************************************)
RejectedCall(call) ==
    \/ call.op \in {"notify", "listen"} /\ ~ValidName(call.eventName)
    \/ call.op = "listen" /\ call.callback.type # "function"

C13_InvalidArgumentsRaise ==
    /\ [](RejectedCall(last) => (last.result = "throw" /\ Len(last.calls) = 0))
    /\ [][RejectedCall(last') => UNCHANGED Registry]_vars

\* a listen with a well-named event and a callback that is not callable raised
C13_Witness ==
    /\ last.op = "listen"
    /\ ValidName(last.eventName)
    /\ last.callback.type # "function"
    /\ last.result = "throw"
    /\ \E k \in RegistryKeys : Key(k[1], k[2]).present

(***************************************************************************)
(* C15: in the flat registry listen replays the state exactly when the     *)
(* state at subscribe time is neither null nor an empty record: then every *)
(* registered callback (the new one included) is handed the state once and *)
(* the stored state keeps its value; for null or an empty record listen    *)
(* invokes no callback.                                                    *)
(***************************************************************************)
\* the state of the key when the callback is added
StateAtSubscribe ==
    IF last.pre.present THEN last.pre.val
    ELSE IF last.data.kind = "undefined" THEN EmptyRecord ELSE last.data

NonTrivial(state) == state.kind # "null" /\ state # EmptyRecord

C15_ReplayOnlyNonTrivialState ==
    (variant = "flat" /\ last.op = "listen" /\ last.result = "ok") =>
        /\ NonTrivial(StateAtSubscribe) =>
              /\ Invoked = LastKey.cbs
              /\ \A i \in 1..Len(last.calls) : last.calls[i].value = StateAtSubscribe
              /\ LastKey.val = StateAtSubscribe
        /\ ~NonTrivial(StateAtSubscribe) => Len(last.calls) = 0

(***************************************************************************)
(* C18: in the sliced registry initialState is applied by the first listen *)
(* of a key only: a listen on a key that already has a callback set (also  *)
(* an empty one, after every callback was unsubscribed) leaves the stored  *)
(* state of the key as it was, whatever initialState and callback it is    *)
(* given.                                                                  *)
(***************************************************************************)
C18_InitialStateOnlyOnce ==
    (/\ variant = "sliced"
     /\ last.op = "listen"
     /\ last.result = "ok"
     /\ last.pre.hasSet)
    => /\ LastKey.present
       /\ LastKey.val = last.pre.val

\* a listen on a key whose callbacks were all removed, with an initialState
\* that differs from the stored state
C18_Witness ==
    /\ variant = "sliced"
    /\ last.op = "listen"
    /\ last.result = "ok"
    /\ last.pre.hasSet
    /\ Len(last.pre.cbs) = 0
    /\ last.data.kind = "record"
    /\ last.data # last.pre.val
    /\ LastKey.val = last.pre.val

(***************************************************************************)
(* C14: there is no partial failure.  A notify call, or a listen call that *)
(* replays through notify, that raises has changed nothing: also when it   *)
(* is a callback that raises during the fan-out, the key holds the state   *)
(* and the callbacks it held before the call.                              *)
(***************************************************************************)
C14_NoPartialFailure ==
    (last.op \in {"notify", "listen"} /\ last.result = "throw")
    => LastKey = last.pre

(***************************************************************************)
(* C16: in the sliced registry listen invokes no callback and leaves the   *)
(* state of a key that exists as it is; a callback is invoked only by      *)
(* notify calls that start after the listen call that registered it has    *)
(* returned, so every callback a notify call invokes was registered on the *)
(* key when that call started.                                             *)
(***************************************************************************)
C16_NewCallbackOnlyFutureNotifies ==
    variant = "sliced" =>
        /\ last.op = "listen" =>
             /\ Len(last.calls) = 0
             /\ last.pre.present => LastKey.val = last.pre.val
        /\ last.op = "notify" =>
             \A i \in 1..Len(last.calls) : InSet(last.pre.cbs, last.calls[i].cb)

(***************************************************************************)
(* C17: the fan-out of a notify call works on a snapshot of the callback   *)
(* set.  Also when a callback calls listen or unsubscribe on the key while *)
(* it is invoked, the callbacks the call invokes are those registered when *)
(* the call started, in order, each once.                                  *)
(***************************************************************************)
C17_FanOutOnSnapshot ==
    (/\ last.op = "notify"
     /\ last.result = "ok"
     /\ last.pre.hasSet
     /\ last.act.kind \in {"observe", "listen", "unsubscribe"})
    => Invoked = last.pre.cbs

\* the callback was registered on the key before the last call and is still
StayedRegistered(c) == InSet(last.pre.cbs, c) /\ InSet(LastKey.cbs, c)

\* the value of the last invocation of c in the last call
LastDelivered(c) ==
    LET at == {i \in 1..Len(last.calls) : last.calls[i].cb = c}
        latest == CHOOSE i \in at : \A j \in at : j <= i
    IN  last.calls[latest].value

(***************************************************************************)
(* C19: when a notify call made from outside a callback has returned, each *)
(* callback that stayed registered on the key was invoked, and the last    *)
(* value it was handed is the state the key now stores, also when a        *)
(* callback called notify on the key during the fan-out.                   *)
(***************************************************************************)
C19_NoStaleValue ==
    (last.op = "notify" /\ last.result = "ok" /\ last.pre.hasSet)
    => \A c \in Cbs :
         StayedRegistered(c) => (TimesInvoked(c) > 0 /\ LastDelivered(c) = LastKey.val)

\* the components whose effect has run and whose cleanup has not
Active == {c \in Components : phase[c] = "active"}

(***************************************************************************)
(* C20: for components bound to a key through useNotifier, the callback    *)
(* set of the key holds exactly the callbacks of the active components,    *)
(* and the local state of every active component is the state stored for   *)
(* the key, also when a notify by another caller comes between the render  *)
(* (getState) and the effect (listen) of a component.                      *)
(***************************************************************************)
C20_HookFollowsRegistry ==
    /\ {c \in Components : InSet(Key(HookEvent.name, HookSlice).cbs, c)} = Active
    /\ \A c \in Active : hookState[c] = getState(notifierState, HookEvent, HookSlice)

====
